---------------------------- MODULE Spec2Model ----------------------------
(***************************************************************************)
(* Time iteration for the income fluctuation problem:                      *)
(* ifp_extensions/source/ifp_advanced_code.ipynb.                          *)
(*                                                                         *)
(* Real numbers are modelled as integers in abstract units in which the    *)
(* consumption floor 1e-10 handed to the root finder is the smallest       *)
(* positive value (EPS) and the asset grid has the spacing GridStep.       *)
(* Floating-point specials are modelled by classes: marginal utility is    *)
(* "fin" (finite, > 0), "inf" or "nan"; a residual is "neg", "zero",       *)
(* "pos" or "nan".  Where the value of a floating-point expression is not  *)
(* fixed by the structure of the code (the Monte Carlo sum, the position   *)
(* of a root inside its bracket) every outcome the code allows is kept.    *)
(***************************************************************************)
EXTENDS Integers, Sequences, FiniteSets

\* ------------------------------------------------------------------ bounds
\* Number of asset grid points (grid_size; 20 in the notebook).
GridSize == 2
\* Largest number of shock draws per sequence (shock_draw_size; 400 in the
\* notebook).
MaxDraws == 2
\* Largest iteration cap a caller passes as max_iter.
MaxIter == 2

\* --------------------------------------------------------------- constants
\* The lower end of every bracket K hands to brentq: 1e-10, one unit.
EPS == 1
\* maxiter=12 of the brentq call in K.
BrentMaxIter == 12
\* Spacing of np.linspace(0, grid_max, grid_size), in units.
GridStep == 2

\* The two income states K and euler_diff enumerate: "for z in 0, 1".
Z == {0, 1}
\* Tolerances and reporting intervals a caller passes (tol > 0, print_skip >= 1).
TolValues == {1, 2}
PrintSkips == {2}

VARIABLES
    pc,         \* position of the run
    tol, max_iter, verbose, print_skip,      \* arguments of solve_model
    i, error, c, c_new,                      \* locals of solve_model
    c_vec, k_new, k_i, k_z,                  \* frame of K: argument, output, loop indices
    out,        \* standard output, a sequence of printed lines
    ret,        \* the value returned to the caller of solve_model
    exc,        \* the exception that left solve_model, or "none"
    ifp,        \* the IFP instance
    ed          \* what the last direct call of euler_diff did

vars == <<pc, tol, max_iter, verbose, print_skip, i, error, c, c_new,
          c_vec, k_new, k_i, k_z, out, ret, exc, ifp, ed>>

\* ---------------------------------------------------------------- the model
\* IFP.__init__: self.a_grid = np.linspace(0, grid_max, grid_size)
a_grid == [n \in 0..(GridSize - 1) |-> n * GridStep]

Rows == DOMAIN a_grid
Cells == Rows \X Z

\* An array that has not been given a value (np.empty_like's cells before they
\* are written; c_new of solve_model before its first assignment).
Unset == [cell \in {} |-> 0]

Abs(x) == IF x < 0 THEN -x ELSE x

Max(S) == CHOOSE m \in S : \A x \in S : x <= m

\* The distance taken over income state 0 only.
SupNormFirstColumn(x, y) == Max({Abs(x[cell] - y[cell]) : cell \in Rows \X {0}})

\* np.max(np.abs(c - c_new)) over two arrays of the same shape.
SupNorm(x, y) == Max({Abs(x[cell] - y[cell]) : cell \in Cells})

\* c_init = np.ones((n, 2)); for z in 0, 1: c_init[:, z] = ifp.a_grid
c_init == [cell \in Cells |-> a_grid[cell[1]]]

\* ------------------------------------------------------------------- IFP
\* Probabilities and the discount factor are in hundredths.
\* P=np.array([(0.8, 0.2), (0.7, 0.3)]), σ_vec=np.array((0.0, 0.5)), β=0.96
DefaultP == <<(<<80, 20>>), (<<70, 30>>)>>
DefaultSigma == <<0, 50>>
DefaultBeta == 96

\* Arguments a caller may pass to IFP(...): __init__ takes them as they are.
BetaValues == {DefaultBeta, 0}
PValues == {DefaultP,
            <<(<<80, 30>>), (<<70, 30>>)>>,
            <<(<<50, 30, 20>>), (<<20, 50, 30>>), (<<10, 30, 60>>)>>}
SigmaValues == {DefaultSigma, <<0, 50, 50>>}

\* A second draw sequence one element longer than asked for.
ZetaDrawsLonger(size) == [k \in 1..(size + 1) |-> size + k]

\* self.η_draws = np.random.randn(shock_draw_size), after np.random.seed(1234):
\* the first shock_draw_size values of the stream, named by their position.
EtaDraws(size) == [k \in 1..size |-> k]
\* self.ζ_draws = np.random.randn(shock_draw_size): the values that follow.
ZetaDraws(size) == [k \in 1..size |-> size + k]

\* IFP.__init__: every argument is stored as given; nothing is checked.
IFP(beta, P, sigma_vec, shock_draw_size) ==
    [beta |-> beta, P |-> P, sigma_vec |-> sigma_vec,
     eta_draws |-> EtaDraws(shock_draw_size),
     zeta_draws |-> ZetaDraws(shock_draw_size),
     a_grid |-> a_grid]

\* ifp = IFP()
DefaultIFP == IFP(DefaultBeta, DefaultP, DefaultSigma, MaxDraws)

\* ------------------------------------------------------------- euler_diff
\* "for z_hat in (0, 1)": the next-period states the expectation sums over.
ZHatStates == {0, 1}

\* "a_grid, η_draws, ζ_draws = ifp.a_grid, ifp.η_draws, ifp.η_draws": the
\* local names; ζ_draws is bound to ifp.η_draws.
LocalEta(f) == f.eta_draws
LocalZeta(f) == f.eta_draws

\* "for η in ifp.η_draws: for ζ in ifp.ζ_draws": the sequences the inner
\* double loop runs over.
EtaLoop(f) == f.eta_draws
ZetaLoop(f) == f.zeta_draws

\* The (η, ζ) pairs, by position, the double loop visits for one z_hat.
InnerLoopPairs(f) == (1..Len(EtaLoop(f))) \X (1..Len(ZetaLoop(f)))

\* "Ez = Ez / (len(η_draws) * len(ζ_draws))"
Divisor(f) == Len(LocalEta(f)) * Len(LocalZeta(f))

\* The arguments u_prime is given in "u_prime(t) - max(β * Ez, u_prime(a))".
UPrimeArguments(t, a) == {t, a}

\* A marginal utility that is finite at every argument.
UPrimeFinite(x) == "fin"

\* IFP.u_prime: c ** (-γ) with γ = 2.5, in floating point.
UPrimeClass(x) == IF x > 0 THEN "fin" ELSE IF x = 0 THEN "inf" ELSE "nan"

\* The class of the Monte Carlo sum Ez of euler_diff.  It is finite when
\* every interpolated consumption is positive, infinite when an interpolated
\* consumption is 0 (a node above the grid minimum holds 0), and NaN when
\* linear extrapolation above the grid yields a negative consumption
\* (the last segment of a column slopes down).
EzClasses(cv) ==
    {"fin"}
    \cup (IF \E cell \in Rows \X ZHatStates : cell[1] >= 1 /\ cv[cell] = 0
          THEN {"inf"} ELSE {})
    \cup (IF GridSize >= 2 /\ \E z \in ZHatStates : cv[<<GridSize - 1, z>>] < cv[<<GridSize - 2, z>>]
          THEN {"nan"} ELSE {})

\* max(β * Ez, u_prime(a)): which operand a NaN first argument yields depends
\* on the compiled comparison, so both are kept.
MaxClasses(x, y) ==
    IF x = "nan" THEN {"nan", y}
    ELSE IF x = "inf" \/ y = "inf" THEN {"inf"}
    ELSE {"fin"}

\* u_prime(t) - rhs, as a sign class.
ResidualClasses(lhs, rhs, t, a) ==
    IF lhs = "nan" \/ rhs = "nan" THEN {"nan"}
    ELSE IF lhs = "inf" /\ rhs = "inf" THEN {"nan"}
    ELSE IF lhs = "inf" THEN {"pos"}
    ELSE IF rhs = "inf" THEN {"neg"}
    ELSE IF t >= a THEN {"neg", "zero"}      \* u'(t) <= u'(a) <= rhs
    ELSE {"pos", "zero", "neg"}

\* euler_diff(t, c_vec, a, z, ifp): the classes its return value may have.
euler_diff(t, cv, a, z) ==
    UNION { UNION { ResidualClasses(UPrimeClass(t), rhs, t, a)
                    : rhs \in MaxClasses(ez, UPrimeClass(a)) }
            : ez \in EzClasses(cv) }

\* Arguments of a direct call euler_diff(t, c_vec, a, z, ifp), as in the
\* notebook's timing cell.
EulerT == {0, EPS, GridStep}
EulerPolicies == {c_init, [cell \in Cells |-> 0]}

\* One call of euler_diff: what it read, looped over and returned.
EulerDiffCall ==
    /\ pc \in {"call", "euler"}
    /\ \E t \in EulerT, cv \in EulerPolicies, n \in Rows, z \in Z :
         \E r \in euler_diff(t, cv, a_grid[n], z) :
            ed' = [t |-> t, a |-> a_grid[n], z |-> z,
                   z_hats |-> ZHatStates,
                   eta_loop |-> EtaLoop(ifp), zeta_loop |-> ZetaLoop(ifp),
                   visits |-> Cardinality(InnerLoopPairs(ifp)),
                   divisor |-> Divisor(ifp),
                   result |-> r]
    /\ pc' = "euler"
    /\ UNCHANGED <<tol, max_iter, verbose, print_skip, i, error, c, c_new,
                   c_vec, k_new, k_i, k_z, out, ret, exc, ifp>>


\* ------------------------------------------------------------------ brentq
\* quantecon.optimize.root_finding.brentq, as K calls it.  A result carries
\* the fields K can observe: root, status, and the exception raised instead.
Converged(r) == [root |-> r, status |-> "ECONVERGED", raised |-> "none"]
NotConverged == [root |-> 0, status |-> "ECONVERR", raised |-> "none"]
Raise(e) == [root |-> 0, status |-> "none", raised |-> e]

\* fa * fb > 0: both ends of the bracket have the same strict sign.
SameSign(fa, fb) == fa = fb /\ fa \in {"neg", "pos"}

\* Brent's loop, "for itr in range(maxiter)", on a bracket whose ends differ
\* in sign: an iteration either stops on an iterate inside [lo, hi] or goes
\* on; when the budget is used up the result keeps root = 0.0 and ECONVERR.
RECURSIVE BrentLoop(_, _, _, _)
BrentLoop(lo, hi, itr, maxiter) ==
    IF itr >= maxiter THEN {NotConverged}
    ELSE {Converged(r) : r \in lo..hi} \cup BrentLoop(lo, hi, itr + 1, maxiter)

\* The same loop when an end value is NaN.  No comparison with NaN holds, so
\* the bracket is never set up and xblk = 0.0, fblk = 0.0 stay in use:
\*   f(hi) not NaN: the first iteration swaps to xcur = 0.0, fcur = 0.0 and
\*                  stops there;
\*   f(hi) NaN:     sbis = (0.0 - hi) / 2; with hi = 0 the first iteration
\*                  stops on xcur = hi; otherwise the iterates move from hi
\*                  towards 0.0 and the loop stops on one of them or on 0.0,
\*                  or uses up its budget.
BrentNaN(hi, fb, maxiter) ==
    IF fb # "nan" THEN {Converged(0)}
    ELSE IF hi < EPS THEN {Converged(hi)}
    ELSE {Converged(r) : r \in 0..hi} \cup {NotConverged}

\* brentq on one pair of end values.
BrentqOn(lo, hi, fa, fb, maxiter, disp) ==
    IF maxiter < 1 THEN {Raise("ValueError")}
    ELSE IF SameSign(fa, fb) THEN {Raise("ValueError")}
    ELSE IF fb = "zero" THEN {Converged(hi)}
    ELSE IF fa = "zero" THEN {Converged(lo)}
    ELSE LET rs == IF fa = "nan" \/ fb = "nan"
                   THEN BrentNaN(hi, fb, maxiter)
                   ELSE BrentLoop(lo, hi, 0, maxiter)
         IN  {IF disp /\ r.status = "ECONVERR" THEN Raise("RuntimeError") ELSE r
              : r \in rs}

\* brentq(euler_diff, lo, hi, args=(c_vec, a, z, ifp), maxiter, disp)
brentq(lo, hi, cv, a, z, maxiter, disp) ==
    UNION { BrentqOn(lo, hi, fa, fb, maxiter, disp)
            : fa \in euler_diff(lo, cv, a, z), fb \in euler_diff(hi, cv, a, z) }

\* ------------------------------------------------------------- solve_model
TypeOK ==
    /\ pc \in {"construct", "euler",
              "call", "while", "sweep", "report", "done", "raised"}
    /\ tol \in TolValues /\ max_iter \in 1..MaxIter
    /\ verbose \in BOOLEAN /\ print_skip \in PrintSkips
    /\ i \in 0..MaxIter /\ error \in Nat
    /\ k_i \in 0..GridSize /\ k_z \in Z
    /\ exc \in {"none", "ValueError", "RuntimeError"}

\* Nothing has been returned.
NoValue == <<>>

\* The call solve_model(ifp, tol, max_iter, verbose, print_skip) on an IFP
\* that has been constructed.
Init ==
    /\ pc = "call"
    /\ tol \in TolValues
    /\ max_iter \in 1..MaxIter
    /\ verbose \in BOOLEAN
    /\ print_skip \in PrintSkips
    /\ i = 0 /\ error = 0
    /\ c = Unset /\ c_new = Unset
    /\ c_vec = Unset /\ k_new = Unset /\ k_i = 0 /\ k_z = 0
    /\ out = <<>>
    /\ ret = NoValue
    /\ exc = "none"
    /\ ifp = DefaultIFP
    /\ ed = NoValue

\* The state before "ifp = IFP(...)".
InitConstruct ==
    /\ pc = "construct"
    /\ tol \in TolValues
    /\ max_iter \in 1..MaxIter
    /\ verbose \in BOOLEAN
    /\ print_skip \in PrintSkips
    /\ i = 0 /\ error = 0
    /\ c = Unset /\ c_new = Unset
    /\ c_vec = Unset /\ k_new = Unset /\ k_i = 0 /\ k_z = 0
    /\ out = <<>>
    /\ ret = NoValue
    /\ exc = "none"
    /\ ifp = NoValue
    /\ ed = NoValue

\* ifp = IFP(β, P, σ_vec, shock_draw_size): the constructor stores its
\* arguments and returns.
Construct ==
    /\ pc = "construct"
    /\ \E beta \in BetaValues, P \in PValues, sigma_vec \in SigmaValues,
          size \in 1..MaxDraws :
         ifp' = IFP(beta, P, sigma_vec, size)
    /\ pc' = "call"
    /\ UNCHANGED <<tol, max_iter, verbose, print_skip, i, error, c, c_new,
                   c_vec, k_new, k_i, k_z, out, ret, exc, ed>>

\* Lines 308-315: the initial guess, i = 0, error = tol + 1, c = c_init.
SolveInit ==
    /\ pc = "call"
    /\ i' = 0
    /\ error' = tol + 1
    /\ c' = c_init
    /\ pc' = "while"
    /\ UNCHANGED <<tol, max_iter, verbose, print_skip, c_new,
                   c_vec, k_new, k_i, k_z, out, ret, exc, ifp, ed>>

\* The loop test without its iteration cap.
LoopConditionNoCap == error > tol

\* The loop test without its tolerance test.
LoopConditionNoTol == i < max_iter

\* "while i < max_iter and error > tol"
LoopCondition == i < max_iter /\ error > tol

\* The loop test holds: K(c, ifp) is called, c_new = np.empty_like(c_vec).
LoopEnter ==
    /\ pc = "while"
    /\ LoopCondition
    /\ c_vec' = c
    /\ k_new' = Unset
    /\ k_i' = 0 /\ k_z' = 0
    /\ pc' = "sweep"
    /\ UNCHANGED <<tol, max_iter, verbose, print_skip, i, error, c, c_new,
                   out, ret, exc, ifp, ed>>

\* The loop test fails: control reaches the statements after the loop.
LoopExit ==
    /\ pc = "while"
    /\ ~LoopCondition
    /\ pc' = "report"
    /\ UNCHANGED <<tol, max_iter, verbose, print_skip, i, error, c, c_new,
                   c_vec, k_new, k_i, k_z, out, ret, exc, ifp, ed>>

\* The bracket K hands to brentq for grid index n: (1e-10, a_grid[n]).
BracketLo(n) == EPS
BracketHi(n) == a_grid[n]

\* The brentq call of K for cell (n, z): every result it may have.
CellResults(cv, n, z) ==
    brentq(BracketLo(n), BracketHi(n), cv, a_grid[n], z, BrentMaxIter, FALSE)

\* c_new[i, z] = c_star.root
StoredValue(r) == r.root

\* The values K may store in cell (n, z) of its output, given c_vec = cv.
KCellValues(cv, n, z) ==
    {StoredValue(r) : r \in {x \in CellResults(cv, n, z) : x.raised = "none"}}

\* A store that always goes to income state 0.
WrittenCellFirstColumn(n, z) == <<n, 0>>

\* The cell "c_new[i, z] = ..." writes.
WrittenCell(n, z) == <<n, z>>

\* A store into the argument array itself (c_new bound to c_vec).
InputAliased(cv, cell, v) == [cv EXCEPT ![cell] = v]

\* The argument c_vec after the store: K writes c_new, a fresh array, so
\* c_vec is as it was.
InputAfterStore(cv, cell, v) == cv

\* The successor of (i, z) in "for i in range(n): for z in 0, 1".
NextI(n, z) == IF z = 1 THEN n + 1 ELSE n
NextZ(z) == IF z = 1 THEN 0 ELSE 1

\* One pass of the inner loop body of K: the brentq call for cell (k_i, k_z)
\* and the store of its root.  An exception raised by brentq is caught
\* neither by K nor by solve_model.
KCell ==
    /\ pc = "sweep"
    /\ k_i < GridSize
    /\ \E r \in CellResults(c_vec, k_i, k_z) :
          IF r.raised # "none"
          THEN /\ exc' = r.raised
               /\ pc' = "raised"
               /\ UNCHANGED <<k_new, k_i, k_z, c_vec>>
          ELSE /\ k_new' = [cell \in DOMAIN k_new \cup {WrittenCell(k_i, k_z)} |->
                              IF cell = WrittenCell(k_i, k_z) THEN StoredValue(r)
                              ELSE k_new[cell]]
               /\ c_vec' = InputAfterStore(c_vec, WrittenCell(k_i, k_z),
                                            StoredValue(r))
               /\ k_i' = NextI(k_i, k_z)
               /\ k_z' = NextZ(k_z)
               /\ UNCHANGED <<pc, exc>>
    /\ UNCHANGED <<tol, max_iter, verbose, print_skip, i, error, c, c_new,
                   out, ret, ifp, ed>>

\* print(f"Error at iteration {i} is {error}.")
ProgressLine(n, e) == [text |-> "Error at iteration", i |-> n, error |-> e]

\* The error taken after c has been replaced by c_new.
NewErrorAfterReplace == SupNorm(k_new, k_new)

\* "error = np.max(np.abs(c - c_new))", with c still the array K was given.
NewError == SupNorm(c, k_new)

\* K returns c_new and the rest of the loop body runs: the error, i += 1,
\* the progress line, c = c_new.
LoopBody ==
    /\ pc = "sweep"
    /\ k_i = GridSize
    /\ c_new' = k_new
    /\ error' = NewError
    /\ i' = i + 1
    /\ out' = IF verbose /\ (i + 1) % print_skip = 0
              THEN Append(out, ProgressLine(i + 1, NewError))
              ELSE out
    /\ c' = k_new
    /\ pc' = "while"
    /\ UNCHANGED <<tol, max_iter, verbose, print_skip, c_vec, k_new, k_i, k_z,
                   ret, exc, ifp, ed>>

FailedLine == [text |-> "Failed to converge!"]
ConvergedLine(n) == [text |-> "Converged in", i |-> n]

\* "if i == max_iter: print(...)"
ReportsFailed == i = max_iter
\* "if verbose and i < max_iter: print(...)"
ReportsConverged == verbose /\ i < max_iter

\* A return of the initial guess instead of the last iterate.
ReturnsInitialGuess == [policy |-> c_init]

\* A return that carries a convergence flag and the iteration count.
ReturnsFlagAndCount ==
    [policy |-> c_new, converged |-> error <= tol, iterations |-> i]

\* What "return c_new" hands to the caller: the policy array and nothing else.
ReturnValue == [policy |-> c_new]

\* Lines 325-331: the two reports and the return.
Report ==
    /\ pc = "report"
    /\ out' = (IF ReportsFailed THEN Append(out, FailedLine) ELSE out)
              \o (IF ReportsConverged THEN <<ConvergedLine(i)>> ELSE <<>>)
    /\ ret' = ReturnValue
    /\ pc' = "done"
    /\ UNCHANGED <<tol, max_iter, verbose, print_skip, i, error, c, c_new,
                   c_vec, k_new, k_i, k_z, exc, ifp, ed>>

Next ==
    \/ SolveInit
    \/ LoopEnter
    \/ LoopExit
    \/ KCell
    \/ LoopBody
    \/ Report

Spec == Init /\ [][Next]_vars

\* Construction with arguments of the caller's choice, then solve_model.
NextConstruct ==
    \/ Construct
    \/ Next

SpecConstruct == InitConstruct /\ [][NextConstruct]_vars

\* Construction, then direct calls of euler_diff.
NextEuler ==
    \/ Construct
    \/ EulerDiffCall

SpecEuler == InitConstruct /\ [][NextEuler]_vars

\* ------------------------------------------------------------------ claims
\* The lines printed so far.
Printed == {out[k] : k \in 1..Len(out)}

\* The number of applications of K that have been started.
KApplications == i + (IF pc \in {"sweep", "raised"} THEN 1 ELSE 0)

\* The number of cells the running call of K has written.
Written == 2 * k_i + k_z

\* An upper bound on the number of steps the run has left.
StepsPerIteration == 2 * GridSize + 2
Measure ==
    CASE pc = "call"   -> max_iter * StepsPerIteration + 4
      [] pc = "while"  -> (max_iter - i) * StepsPerIteration + 3
      [] pc = "sweep"  -> (max_iter - i - 1) * StepsPerIteration + 4
                          + (2 * GridSize - Written)
      [] pc = "report" -> 1
      [] OTHER         -> 0

\* C1: solve_model terminates after at most max_iter applications of K: i
\* starts at 0, grows by exactly 1 per completed application and not
\* otherwise, never exceeds max_iter, the loop is left as soon as i reaches
\* max_iter, and every step decreases a natural-number bound on the steps left.
C1_BoundedIteration ==
    /\ [](i <= max_iter /\ KApplications <= max_iter /\ Measure >= 0)
    /\ [][pc = "call" => i' = 0]_vars
    /\ [][pc # "call" => (IF pc = "sweep" /\ pc' = "while"
                          THEN i' = i + 1 ELSE i' = i)]_vars
    /\ [][(pc = "while" /\ i = max_iter) => pc' = "report"]_vars
    /\ [][Measure' < Measure]_vars

\* The run has stopped at the cap after more than one application of K.
C1_Witness == pc = "done" /\ i = max_iter /\ i >= 2

C3_FailedOnlyAboveTol ==
    (pc = "done" /\ FailedLine \in Printed) => error > tol

C6_SweepNeverAborted == ~(pc = "raised" /\ exc = "ValueError")

\* C7 (as claimed): every value K stores lies inside the bracket handed to
\* the root finder, 1e-10 <= c_new[i, z] <= a_grid[i].
C7_StoredInsideBracket ==
    \A cell \in DOMAIN k_new :
        BracketLo(cell[1]) <= k_new[cell] /\ k_new[cell] <= BracketHi(cell[1])

\* C8 (as claimed): every bracket K hands to the root finder has
\* 0 < lo < hi, for every grid index including 0.
C8_BracketWellFormed ==
    (pc = "sweep" /\ k_i < GridSize) =>
        (0 < BracketLo(k_i) /\ BracketLo(k_i) < BracketHi(k_i))

\* C9: at the grid minimum a_grid[0] = 0 the value K stores is that minimum,
\* for both income states and every input array, and so the array
\* solve_model returns has 0 in row 0 of both columns.
C9_ZeroAtGridMinimum ==
    /\ a_grid[0] = 0
    /\ \A z \in Z : <<0, z>> \in DOMAIN k_new => k_new[<<0, z>>] = a_grid[0]
    /\ pc = "done" => \A z \in Z : ret.policy[<<0, z>>] = 0

\* K has swept row 0 for an input other than the initial guess, and
\* solve_model has returned.
C9_Witness ==
    pc = "done" /\ i = 2 /\ c_vec # c_init /\ \A z \in Z : ret.policy[<<0, z>>] = 0

\* The values one further application of K may store in a cell of the
\* returned array.  K is a function of its argument: applied to the array
\* its last call was given, it returns what that call returned.
KAgainValues(cell) ==
    IF ret.policy = c_vec THEN {k_new[cell]}
    ELSE KCellValues(ret.policy, cell[1], cell[2])

C11_UPrimeArgumentsPositive ==
    \A cell \in DOMAIN k_new :
        \A t \in {BracketLo(cell[1]), BracketHi(cell[1])} :
            \A x \in UPrimeArguments(t, a_grid[cell[1]]) : x > 0

\* The sum of a sequence of numbers.
RECURSIVE SumSeq(_)
SumSeq(s) == IF s = <<>> THEN 0 ELSE Head(s) + SumSeq(Tail(s))

\* P is square, its entries are non-negative and its rows sum to one.
Stochastic(P) ==
    \A r \in 1..Len(P) :
        /\ Len(P[r]) = Len(P)
        /\ \A k \in 1..Len(P[r]) : P[r][k] >= 0
        /\ SumSeq(P[r]) = 100

\* The parameters of f are valid: stochastic P, positive β, a non-empty and
\* strictly increasing grid.
ValidParameters(f) ==
    /\ Stochastic(f.P)
    /\ f.beta > 0
    /\ DOMAIN f.a_grid # {}
    /\ \A m, n \in DOMAIN f.a_grid : m < n => f.a_grid[m] < f.a_grid[n]

\* C12 (as claimed): an IFP with invalid parameters fails at construction,
\* so every instance solve_model or K works on has valid parameters.
C12_OnlyValidInstancesReachSolver ==
    pc \in {"while", "sweep", "report", "done", "raised"} =>
        ValidParameters(ifp)

\* C13: the error of an iteration is the sup-norm distance between the array
\* K has just returned and the array that call was given; c is replaced by
\* the new array in the same pass, after the error is taken from the old
\* one; K's output starts as a fresh array and the caller's array is not
\* touched while it is filled; the first call of K is given c_init.
C13_ErrorBetweenArgumentAndResult ==
    /\ [][(pc = "sweep" /\ pc' = "while") =>
            /\ c = c_vec
            /\ error' = SupNorm(c_vec, k_new)
            /\ c_new' = k_new
            /\ c' = k_new]_vars
    /\ [][(pc = "while" /\ pc' = "sweep") =>
            /\ c_vec' = c
            /\ k_new' = Unset
            /\ c' = c
            /\ (i = 0 => \A cell \in Cells : c_vec'[cell] = a_grid[cell[1]])]_vars
    /\ [][(pc = "sweep" /\ pc' = "sweep") => c' = c]_vars

\* Two iterations done, the last one with a non-zero error between two
\* different arrays.
C13_Witness ==
    /\ pc = "while" /\ i = 2
    /\ error > 0 /\ c # c_vec
    /\ error = SupNorm(c_vec, c)

\* C14: while K runs, its argument c_vec and every field of ifp stay as they
\* were; so does the caller's array c, which K was given.
C14_KLeavesInputsUnchanged ==
    [][pc = "sweep" =>
         /\ c_vec' = c_vec
         /\ ifp' = ifp
         /\ (pc' = "sweep" => c' = c)]_vars

\* K has filled its output in the second iteration, with values that differ
\* from its argument.
C14_Witness ==
    /\ pc = "sweep" /\ k_i = GridSize /\ i = 1
    /\ c_vec # c_init
    /\ \E cell \in Cells : k_new[cell] # c_vec[cell]

StatesOf(P) == 0..(Len(P) - 1)

\* C16 (as claimed): for P over any finite state set, K assigns every
\* (i, z) with z a state of P, the expectation sums over every state of P,
\* and the returned array has one column per state of P.
C16_EveryIncomeStateCovered ==
    /\ pc = "sweep" =>
          /\ Z = StatesOf(ifp.P)
          /\ ZHatStates = StatesOf(ifp.P)
    /\ pc = "done" => DOMAIN ret.policy = Rows \X StatesOf(ifp.P)

\* C17: the divisor euler_diff builds from its local names equals
\* len(ifp.η_draws) * len(ifp.ζ_draws), which is the number of (η, ζ) pairs
\* the inner loops visit, and those loops run over the instance's own
\* η_draws and ζ_draws.
C17_DivisorMatchesLoops ==
    pc = "euler" =>
        /\ ed.divisor = Len(ifp.eta_draws) * Len(ifp.zeta_draws)
        /\ ed.divisor = ed.visits
        /\ ed.eta_loop = ifp.eta_draws
        /\ ed.zeta_loop = ifp.zeta_draws

\* A call on an instance with more than one draw per sequence, where the
\* local name ζ_draws holds other values than ifp.ζ_draws.
C17_Witness ==
    /\ pc = "euler"
    /\ Len(ifp.eta_draws) = MaxDraws /\ MaxDraws >= 2
    /\ LocalZeta(ifp) # ifp.zeta_draws
    /\ ed.divisor = MaxDraws * MaxDraws

=============================================================================
